---- MODULE Spec2Model ----
(***************************************************************************)
(* autoclash: the monitoring-and-failover controller of                    *)
(* src/unnamed/part_000.  Three goroutines (startNodeUpdater,              *)
(* startBestNodeSelector, startCurrentNodeChecker) share gNodes, gCurrent  *)
(* and gBest under the mutex mu; selectFastestNode is the cost-tiered      *)
(* latency search with threshold escalation.                               *)
(*                                                                         *)
(* ProxyNode objects live in `heap`, a function from addresses to records; *)
(* a *ProxyNode is an address and nil is the address 0, so that pointer    *)
(* equality (gBest == gCurrent) is equality of addresses, not of names.    *)
(* Unreachable objects are collected and their addresses reused.           *)
(*                                                                         *)
(* Specifications: Spec (the controller against a control service that may *)
(* answer anything), SpecLive (against a service that behaves, with        *)
(* fairness), SpecSelect and SpecSelectFair (the escalation loop on its    *)
(* own), SpecFilter, SpecFlow and SpecTrial (filterNodes, getFlow and the   *)
(* trials of one probe goroutine on their own).                            *)
(***************************************************************************)
EXTENDS Integers, Sequences, FiniteSets, TLC

VARIABLES
    gConfig,          \* *Config: LatencyThreshold, TestTimes, SelectNode, IncludeRegex, ExcludeRegex
    heap,             \* address -> ProxyNode [name, flow, latency]
    gNodes,           \* []*ProxyNode: sequence of addresses
    gCurrent,         \* *ProxyNode
    gBest,            \* *ProxyNode
    mu,               \* sync.Mutex: the task holding it, or "none"
    pc,               \* task -> its position in its loop
    uNodes,           \* startNodeUpdater: nodes returned by getNodes (addresses)
    uCurrent,         \* startNodeUpdater: current returned by getNodes
    uErr,             \* startNodeUpdater: err returned by getNodes ("none" for nil)
    pending,          \* task -> the nodes whose probe goroutine of its selectFastestNode has not called wg.Done
    delay,            \* startCurrentNodeChecker: delay of this tick (NoDelay before testNode)
    tickLog,          \* observer: what the failover tick in progress has done so far
    prevSwitchFailed, \* observer: the last failover tick ended with a switch request that failed
    atLock,           \* observer: gNodes, gCurrent, gBest and heap as they were at mu.Lock()
    latencyThreshold, \* selectFastestNode: the local latencyThreshold of the escalation loop
    selPc,            \* escalation loop run on its own: "search" or "done"
    selResult,        \* escalation loop run on its own: the node returned (Nil with the error)
    selRounds,        \* escalation loop run on its own: tier searches made so far (saturating)
    uDir,             \* getNodes: proxiesResp.Proxies of this cycle, in the order ranged over (<<>> outside getNodes)
    service,          \* the control service: the selector's now, the endpoints whose delay test fails, and
                      \* whether its behaviour is fixed from here on
    pure              \* filterNodes and getFlow run on their own: the call and its results

vars == <<gConfig, heap, gNodes, gCurrent, gBest, mu, pc,
          uNodes, uCurrent, uErr, pending, delay, tickLog, prevSwitchFailed, atLock,
          latencyThreshold, selPc, selResult, selRounds, uDir, service, pure>>

Tasks == {"updater", "selector", "checker"}
NoDelay == -2
NoSnapshot == [taken |-> FALSE]
NoService == [now |-> <<>>, down |-> {}, fixed |-> FALSE]
NoCall == [op |-> "none"]

Nil == 0

Range(s) == {s[i] : i \in DOMAIN s}

Min(a, b) == IF a <= b THEN a ELSE b

\* Go's integer division truncates toward zero.
GoDiv(a, b) ==
    IF (a >= 0 /\ b > 0) \/ (a <= 0 /\ b < 0) THEN a \div b
    ELSE -((-a) \div b)

(***************************************************************************)
(* Bounds of the model.                                                    *)
(***************************************************************************)
\* Flow coefficients are float64 in the code; the model keeps them as
\* integers in units of 10^-FracDigits (1.0 is FlowUnit, 1.5 is 15 * FlowUnit \div 10).
FracDigits == 1
FlowUnit == 10 ^ FracDigits

\* Base thresholds 0..MaxThreshold for the escalation loop run on its own.
MaxThreshold == 11
\* Pools of at most MaxPool nodes for the escalation loop run on its own.
MaxPool == 2
\* Latencies of a scored pool lie on a grid: -1, 0, and LatGrid * k for k in 1..MaxLatK.
LatGrid == 3
MaxLatK == 8
\* filterNodes run on its own: lists of at most MaxList nodes.
MaxList == 3
\* getFlow run on its own: names of at most MaxPieces pieces of NamePieces.
MaxPieces == 3
\* A probe goroutine run on its own: at most MaxTrials trials (test_times).
MaxTrials == 3

(***************************************************************************)
(* selectFastestNode, lines 274-316: grouping, sorted tiers, the search    *)
(* of one threshold, and the escalation.                                   *)
(***************************************************************************)
RECURSIVE SortedSeq(_)
SortedSeq(S) ==
    IF S = {} THEN <<>>
    ELSE LET m == CHOOSE x \in S : \A y \in S : x <= y
         IN <<m>> \o SortedSeq(S \ {m})

\* nodeGroups[flow]: the nodes of gNodes with that flow, in gNodes order.
nodeGroups(h, nodes, flow) == SelectSeq(nodes, LAMBDA a : h[a].flow = flow)

\* Mutant of flowKeys: the tiers are not sorted cheapest first.
RECURSIVE SortedDescSeq(_)
SortedDescSeq(S) ==
    IF S = {} THEN <<>>
    ELSE LET m == CHOOSE x \in S : \A y \in S : x >= y
         IN <<m>> \o SortedDescSeq(S \ {m})

flowKeys_Unsorted(h, nodes) == SortedDescSeq({h[a].flow : a \in Range(nodes)})

\* flowKeys after sort.Float64s: the distinct flows, ascending.
flowKeys(h, nodes) == SortedSeq({h[a].flow : a \in Range(nodes)})

\* Mutant of IsCandidate: the test Latency > 0 is dropped.
IsCandidate_NoSignalTest(latency, threshold) == latency <= threshold

\* Line 296: node.Latency > 0 && node.Latency <= latencyThreshold.
IsCandidate(latency, threshold) == latency > 0 /\ latency <= threshold

\* Mutant of ScanTier: the first candidate of the tier is kept, not the fastest.
RECURSIVE ScanTier_FirstCandidate(_, _, _, _, _, _)
ScanTier_FirstCandidate(h, nodes, i, threshold, bestNode, bestLatency) ==
    IF i > Len(nodes) THEN bestNode
    ELSE LET node == nodes[i] IN
         IF /\ h[node].latency > 0 /\ h[node].latency <= threshold
            /\ bestLatency = -1
         THEN ScanTier_FirstCandidate(h, nodes, i + 1, threshold, node, h[node].latency)
         ELSE ScanTier_FirstCandidate(h, nodes, i + 1, threshold, bestNode, bestLatency)

\* Lines 292-302: the scan of one tier; bestNode after the loop.
RECURSIVE ScanTier(_, _, _, _, _, _)
ScanTier(h, nodes, i, threshold, bestNode, bestLatency) ==
    IF i > Len(nodes) THEN bestNode
    ELSE LET node == nodes[i] IN
         IF /\ IsCandidate(h[node].latency, threshold)
            /\ (bestLatency = -1 \/ h[node].latency < bestLatency)
         THEN ScanTier(h, nodes, i + 1, threshold, node, h[node].latency)
         ELSE ScanTier(h, nodes, i + 1, threshold, bestNode, bestLatency)

\* Lines 290-307: the tiers in flowKeys order; the first tier's bestNode that is
\* not nil is returned, Nil when no tier has one.
RECURSIVE SearchFrom(_, _, _, _, _)
SearchFrom(h, nodes, keys, k, threshold) ==
    IF k > Len(keys) THEN Nil
    ELSE LET bestNode == ScanTier(h, nodeGroups(h, nodes, keys[k]), 1, threshold, Nil, -1)
         IN IF bestNode # Nil THEN bestNode
            ELSE SearchFrom(h, nodes, keys, k + 1, threshold)

SearchTiers(h, nodes, threshold) ==
    SearchFrom(h, nodes, flowKeys(h, nodes), 1, threshold)

\* Mutant of NextThreshold: the threshold grows by a tenth of itself.
NextThreshold_Compound(threshold, base) == threshold + GoDiv(threshold, 10)

\* Line 310: latencyThreshold += gConfig.LatencyThreshold / 10.
NextThreshold(threshold, base) == threshold + GoDiv(base, 10)

\* Mutant of Exhausted: the loop stops at the bound, not past it.
Exhausted_AtBound(threshold, base) == threshold >= base * 2

\* Line 311: latencyThreshold > gConfig.LatencyThreshold*2.
Exhausted(threshold, base) == threshold > base * 2

\* Lines 288-315 as a function of the scored pool: the outcome of the escalation
\* started at `threshold`.  "found" with the node, "error" (line 315), or
\* "loops" when the threshold does not move and nothing qualifies, so that the
\* for-loop repeats the same search for ever.
RECURSIVE Escalation(_, _, _, _)
Escalation(h, nodes, threshold, base) ==
    LET bestNode == SearchTiers(h, nodes, threshold)
        next == NextThreshold(threshold, base)
    IN IF bestNode # Nil THEN [outcome |-> "found", node |-> bestNode]
       ELSE IF Exhausted(next, base) THEN [outcome |-> "error", node |-> Nil]
       ELSE IF next = threshold THEN [outcome |-> "loops", node |-> Nil]
       ELSE Escalation(h, nodes, next, base)

selectFastestNode(h, nodes, base) == Escalation(h, nodes, base, base)

(***************************************************************************)
(* Names are sequences of one-character strings.  getFlow, lines 81-97:    *)
(* the leftmost match of (\d+\.\d+)x|(\d+)x, the first alternative         *)
(* preferred at that position, parsed as a decimal number.                 *)
(***************************************************************************)
DigitChars == <<"0", "1", "2", "3", "4", "5", "6", "7", "8", "9">>
IsDigit(c) == c \in Range(DigitChars)
DigitValue(c) == (CHOOSE i \in DOMAIN DigitChars : DigitChars[i] = c) - 1

\* The number of consecutive digits of s from position i on.
RECURSIVE DigitRun(_, _)
DigitRun(s, i) ==
    IF i <= Len(s) /\ IsDigit(s[i]) THEN 1 + DigitRun(s, i + 1) ELSE 0

RECURSIVE NatOf(_)
NatOf(digits) ==
    IF digits = <<>> THEN 0
    ELSE 10 * NatOf(SubSeq(digits, 1, Len(digits) - 1)) + DigitValue(digits[Len(digits)])

CharAt(s, i) == IF i \in DOMAIN s THEN s[i] ELSE ""

\* (\d+\.\d+)x matches at position i.
DecimalAt(s, i) ==
    LET n1 == DigitRun(s, i)
        n2 == DigitRun(s, i + n1 + 1)
    IN n1 > 0 /\ CharAt(s, i + n1) = "." /\ n2 > 0 /\ CharAt(s, i + n1 + 1 + n2) = "x"

\* (\d+)x matches at position i.
IntegerAt(s, i) ==
    LET n == DigitRun(s, i) IN n > 0 /\ CharAt(s, i + n) = "x"

\* Mutant of ParseFloat: the digits after the point are dropped.
ParseFloat_NoFraction(intDigits, fracDigits) == NatOf(intDigits) * FlowUnit

\* strconv.ParseFloat of "int.frac", in units of 10^-FracDigits (digits of the
\* fraction past FracDigits are cut off).
ParseFloat(intDigits, fracDigits) ==
    LET kept == SubSeq(fracDigits, 1, Min(Len(fracDigits), FracDigits))
    IN NatOf(intDigits) * FlowUnit + NatOf(kept) * 10 ^ (FracDigits - Len(kept))

\* Mutant of getFlow: a name without a token gets 0, the zero value of float64.
getFlow_DefaultZero(nodeName) ==
    LET starts == {i \in DOMAIN nodeName : DecimalAt(nodeName, i) \/ IntegerAt(nodeName, i)}
    IN IF starts = {} THEN 0
       ELSE LET i == CHOOSE j \in starts : \A k \in starts : j <= k
                n1 == DigitRun(nodeName, i)
                n2 == DigitRun(nodeName, i + n1 + 1)
            IN IF DecimalAt(nodeName, i)
               THEN ParseFloat(SubSeq(nodeName, i, i + n1 - 1),
                               SubSeq(nodeName, i + n1 + 1, i + n1 + n2))
               ELSE ParseFloat(SubSeq(nodeName, i, i + n1 - 1), <<>>)

getFlow(nodeName) ==
    LET starts == {i \in DOMAIN nodeName : DecimalAt(nodeName, i) \/ IntegerAt(nodeName, i)}
    IN IF starts = {} THEN FlowUnit
       ELSE LET i == CHOOSE j \in starts : \A k \in starts : j <= k
                n1 == DigitRun(nodeName, i)
                n2 == DigitRun(nodeName, i + n1 + 1)
            IN IF DecimalAt(nodeName, i)
               THEN ParseFloat(SubSeq(nodeName, i, i + n1 - 1),
                               SubSeq(nodeName, i + n1 + 1, i + n1 + n2))
               ELSE ParseFloat(SubSeq(nodeName, i, i + n1 - 1), <<>>)

(***************************************************************************)
(* filterNodes, lines 163-181.  The patterns of the model are literal      *)
(* strings (a literal matches a name that contains it; the empty pattern   *)
(* matches every name) and the pattern "(", which regexp.Compile rejects.  *)
(***************************************************************************)
BadPattern == <<"(">>
Compiles(pattern) == pattern # BadPattern
MatchString(pattern, name) ==
    \E i \in 0..(Len(name) - Len(pattern)) : SubSeq(name, i + 1, i + Len(pattern)) = pattern

\* Mutant of Passes: the exclude pattern is not applied.
Passes_NoExclude(name, config) == MatchString(config.IncludeRegex, name)

\* Line 176.
Passes(name, config) ==
    MatchString(config.IncludeRegex, name) /\ ~MatchString(config.ExcludeRegex, name)

filterNodes(entries, config) == SelectSeq(entries, LAMBDA e : Passes(e.name, config))

(***************************************************************************)
(* getNodes, lines 100-160, on a directory: a sequence of entries          *)
(* [name, type, alive, now] in the order in which the map is ranged over.  *)
(***************************************************************************)
ignoreTypes == {"Selector", "Direct", "URLTest", "Fallback", "LoadBalance", "Reject"}

\* Mutant of Selectable: entries that are not alive are appended too.
Selectable_IgnoresAlive(e, config) ==
    /\ e.name # config.SelectNode
    /\ e.type \notin ignoreTypes

\* Lines 128-146: the entries appended to nodes.
Selectable(e, config) ==
    /\ e.name # config.SelectNode
    /\ e.type \notin ignoreTypes
    /\ e.alive

\* Mutant of currentName: the selector's own name is taken, not its now.
currentName_OwnName(dir, config) ==
    LET sel == SelectSeq(dir, LAMBDA e : e.name = config.SelectNode)
    IN IF sel = <<>> THEN <<>> ELSE sel[Len(sel)].name

\* Lines 137-139: currentName, "" when no entry has the selector's name.
currentName(dir, config) ==
    LET sel == SelectSeq(dir, LAMBDA e : e.name = config.SelectNode)
    IN IF sel = <<>> THEN <<>> ELSE sel[Len(sel)].now

\* The entries that getNodes returns as nodes, in order.
keptEntries(dir, config) ==
    filterNodes(SelectSeq(dir, LAMBDA e : Selectable(e, config)), config)

(***************************************************************************)
(* The escalation loop of selectFastestNode run on its own, one iteration  *)
(* of the outer for-loop per step, on every scored pool of the bounds.     *)
(***************************************************************************)
Flows == {FlowUnit, 2 * FlowUnit}
Latencies == {-1, 0} \cup {LatGrid * k : k \in 1..MaxLatK}
PoolNames == <<"X", "Y", "Z", "W">>
ScoredNodes == [flow : Flows, latency : Latencies]

\* The pools of spec scenarios A, B and C (section 8), as <<flow, latency>> of X, Y, Z.
ScenarioPools ==
    { << [flow |-> FlowUnit, latency |-> 100], [flow |-> FlowUnit, latency |-> 50],
         [flow |-> 2 * FlowUnit, latency |-> 10] >>,
      << [flow |-> FlowUnit, latency |-> 100], [flow |-> FlowUnit, latency |-> -1],
         [flow |-> 2 * FlowUnit, latency |-> 10] >>,
      << [flow |-> FlowUnit, latency |-> 300], [flow |-> FlowUnit, latency |-> 300],
         [flow |-> 2 * FlowUnit, latency |-> 300] >> }
ScenarioThresholds == {100, 120}

\* Base thresholds of 20 and more, a multiple of 10 and two that are not, each
\* with the pools of one node whose latency is just below, at and just above
\* twice the threshold.
BoundaryThresholds == {20, 21, 25}
BoundaryInputs ==
    {<< <<[flow |-> FlowUnit, latency |-> 2 * base + d]>>, base >> :
        base \in BoundaryThresholds, d \in {-1, 0, 1}}

SelInputs ==
    ((UNION {[1..n -> ScoredNodes] : n \in 0..MaxPool}) \X (0..MaxThreshold))
    \cup (ScenarioPools \X ScenarioThresholds)
    \cup BoundaryInputs

PoolHeap(pool) ==
    [a \in 1..Len(pool) |->
        [name |-> <<PoolNames[a]>>, flow |-> pool[a].flow, latency |-> pool[a].latency]]

SelConfig(base) ==
    [LatencyThreshold |-> base, TestTimes |-> 1, SelectNode |-> <<"S">>,
     IncludeRegex |-> <<>>, ExcludeRegex |-> <<"1", "0", "x">>]

\* selRounds counts the searches made; it stops counting one above base + 1,
\* which no escalation that grows by at least 1 per search can exceed.
RoundCap(base) == base + 2

SelInit ==
    \E in \in SelInputs :
        /\ gConfig = SelConfig(in[2])
        /\ heap = PoolHeap(in[1])
        /\ gNodes = [a \in 1..Len(in[1]) |-> a]
        /\ latencyThreshold = in[2]
        /\ selPc = "search"
        /\ selResult = Nil
        /\ selRounds = 0
        /\ gCurrent = Nil
        /\ gBest = Nil
        /\ mu = "none"
        /\ pc = [t \in Tasks |-> "wait"]
        /\ uNodes = <<>>
        /\ uCurrent = Nil
        /\ uErr = "none"
        /\ pending = [t \in Tasks |-> {}]
        /\ delay = NoDelay
        /\ tickLog = <<>>
        /\ prevSwitchFailed = FALSE
        /\ atLock = NoSnapshot
        /\ uDir = <<>>
        /\ service = NoService
        /\ pure = NoCall

selFrame ==
    UNCHANGED <<gConfig, heap, gNodes, gCurrent, gBest, mu, pc,
                uNodes, uCurrent, uErr, pending, delay, tickLog, prevSwitchFailed, atLock,
                uDir, service, pure>>

\* Lines 304-306: a tier has a bestNode at the current threshold.
SelFound ==
    /\ selPc = "search"
    /\ SearchTiers(heap, gNodes, latencyThreshold) # Nil
    /\ selResult' = SearchTiers(heap, gNodes, latencyThreshold)
    /\ selRounds' = Min(selRounds + 1, RoundCap(gConfig.LatencyThreshold))
    /\ selPc' = "done"
    /\ UNCHANGED latencyThreshold
    /\ selFrame

\* Lines 310-313, no break: the threshold is raised and the tiers are searched again.
SelEscalate ==
    /\ selPc = "search"
    /\ SearchTiers(heap, gNodes, latencyThreshold) = Nil
    /\ ~Exhausted(NextThreshold(latencyThreshold, gConfig.LatencyThreshold),
                  gConfig.LatencyThreshold)
    /\ latencyThreshold' = NextThreshold(latencyThreshold, gConfig.LatencyThreshold)
    /\ selRounds' = Min(selRounds + 1, RoundCap(gConfig.LatencyThreshold))
    /\ UNCHANGED <<selPc, selResult>>
    /\ selFrame

\* Lines 310-315, break: the raised threshold is past twice the base; the error is returned.
SelExhausted ==
    /\ selPc = "search"
    /\ SearchTiers(heap, gNodes, latencyThreshold) = Nil
    /\ Exhausted(NextThreshold(latencyThreshold, gConfig.LatencyThreshold),
                 gConfig.LatencyThreshold)
    /\ latencyThreshold' = NextThreshold(latencyThreshold, gConfig.LatencyThreshold)
    /\ selRounds' = Min(selRounds + 1, RoundCap(gConfig.LatencyThreshold))
    /\ selPc' = "done"
    /\ selResult' = Nil
    /\ selFrame

SelNext == SelFound \/ SelEscalate \/ SelExhausted

SpecSelect == SelInit /\ [][SelNext]_vars

\* The scheduler keeps running the goroutine that is inside selectFastestNode.
SpecSelectFair == SpecSelect /\ WF_vars(SelNext)

(***************************************************************************)
(* The controller: configuration, the control service's answers, and the   *)
(* three goroutines of lines 319-397.                                      *)
(***************************************************************************)
\* latency_threshold and test_times of the configuration the controller runs with.
CfgLatencyThreshold == 10
CfgTestTimes == 1

NameA == <<"A">>
NameB == <<"B", "2", "x">>
NameD == <<"D", "1", "0", "x">>
NameG == <<"G">>
NameS == <<"S">>

GoodConfig ==
    [LatencyThreshold |-> CfgLatencyThreshold, TestTimes |-> CfgTestTimes,
     SelectNode |-> NameS, IncludeRegex |-> <<>>, ExcludeRegex |-> <<"1", "0", "x">>]
BadRegexConfig == [GoodConfig EXCEPT !.ExcludeRegex = BadPattern]

Entry(name, type, alive, now) == [name |-> name, type |-> type, alive |-> alive, now |-> now]

\* All orders of the elements of a set, as sequences.
RECURSIVE Orders(_)
Orders(S) ==
    IF S = {} THEN {<<>>}
    ELSE UNION { {<<x>> \o q : q \in Orders(S \ {x})} : x \in S }

EndpointNames == {NameA, NameB}

\* The answers of GET /proxies: the selector S pointing at an endpoint or at D,
\* the endpoints (each alive or not, ranged over in any order), the URLTest
\* group G and the endpoint D, which the exclude pattern removes.
Directories ==
    { <<Entry(NameS, "Selector", TRUE, now)>>
        \o [i \in DOMAIN order |-> Entry(order[i], "Shadowsocks", order[i] \in alive, <<>>)]
        \o <<Entry(NameG, "URLTest", TRUE, NameA), Entry(NameD, "Shadowsocks", TRUE, <<>>)>> :
      now \in EndpointNames \cup {NameD},
      alive \in SUBSET EndpointNames,
      order \in Orders(EndpointNames) }

\* The delays GET /proxies/{name}/delay can make testNode return: -1 (no
\* signal), 0, the base threshold, twice the base threshold and one more.
ProbeValues(config) ==
    {-1, 0, config.LatencyThreshold, 2 * config.LatencyThreshold,
     2 * config.LatencyThreshold + 1}

\* Mutant of testNode: a nil node is probed like any other.
testNode_ProbesNil(node, config) == ProbeValues(config)

\* testNode, lines 184-214.
testNode(node, config) == IF node = Nil THEN {-1} ELSE ProbeValues(config)

\* Lines 254-268: the latency a probe goroutine writes after its trials.
RECURSIVE SumSeq(_)
SumSeq(q) == IF q = <<>> THEN 0 ELSE q[1] + SumSeq(Tail(q))
\* Mutant of TrialLatency: the sum is divided by the number of trials made.
TrialLatency_AllTrials(trials) ==
    LET good == SelectSeq(trials, LAMBDA v : v > 0)
    IN IF Len(good) > 0 THEN GoDiv(SumSeq(good), Len(trials)) ELSE -1

TrialLatency(trials) ==
    LET good == SelectSeq(trials, LAMBDA v : v > 0)
    IN IF Len(good) > 0 THEN GoDiv(SumSeq(good), Len(good)) ELSE -1

\* Mutant of Degraded: a delay of exactly twice the threshold counts as degraded.
Degraded_AtBound(d, config) == d = -1 \/ d >= config.LatencyThreshold * 2

\* Line 377.
Degraded(d, config) == d = -1 \/ d > config.LatencyThreshold * 2

\* Mutant of NeedsSelection: a nil gBest is not looked for.
NeedsSelection_NoNilTest(best, current) == best = current

\* Line 378.
NeedsSelection(best, current) == best = Nil \/ best = current

\* The objects a goroutine or a global can still reach.
Roots(nodes, current, best, un, uc, pend, snap) ==
    (Range(nodes) \cup {current, best} \cup Range(un) \cup {uc}
       \cup UNION {pend[t] : t \in Tasks}
       \cup (IF snap.taken THEN DOMAIN snap.heap ELSE {})) \ {Nil}

\* n addresses that hold no object.
FreshAddrs(h, n) ==
    SubSeq(SortedSeq((1..(Cardinality(DOMAIN h) + n)) \ DOMAIN h), 1, n)

Snapshot == [taken |-> TRUE, nodes |-> gNodes, current |-> gCurrent, best |-> gBest, heap |-> heap]

\* "wait": the task is at <-ticker.C, in time.Sleep, or blocked in mu.Lock().
Idle(t) == pc[t] = "wait"
FirstStep(t) == CASE t = "updater" -> "fetch" [] t = "selector" -> "check" [] t = "checker" -> "test"

Init ==
    /\ gConfig \in {GoodConfig, BadRegexConfig}
    /\ heap = <<>>
    /\ gNodes = <<>>
    /\ gCurrent = Nil
    /\ gBest = Nil
    /\ mu = "none"
    /\ pc = [t \in Tasks |-> "wait"]
    /\ uNodes = <<>>
    /\ uCurrent = Nil
    /\ uErr = "none"
    /\ pending = [t \in Tasks |-> {}]
    /\ delay = NoDelay
    /\ tickLog = <<>>
    /\ prevSwitchFailed = FALSE
    /\ atLock = NoSnapshot
    /\ latencyThreshold = 0
    /\ selPc = "done"
    /\ selResult = Nil
    /\ selRounds = 0
    /\ uDir = <<>>
    /\ service = [NoService EXCEPT !.now = NameA]
    /\ pure = NoCall

harnessFrame == UNCHANGED <<latencyThreshold, selPc, selResult, selRounds, pure>>
observerFrame == UNCHANGED prevSwitchFailed
cycleFrame == UNCHANGED <<uDir, service>>

\* Mutant of MuFree: Lock does not wait for the holder.
MuFree_NoWait == TRUE

\* mu.Lock() returns only when no goroutine holds mu.
MuFree == mu = "none"

\* mu.Lock(), lines 323, 350, 375: the tick (or the backoff) is over and the task has the lock.
Lock(t) ==
    /\ Idle(t)
    /\ MuFree
    /\ mu' = t
    /\ pc' = [pc EXCEPT ![t] = FirstStep(t)]
    /\ atLock' = Snapshot
    /\ UNCHANGED <<gConfig, heap, gNodes, gCurrent, gBest, uNodes, uCurrent, uErr,
                   pending, delay, tickLog>>
    /\ harnessFrame /\ observerFrame /\ cycleFrame

\* Mutant of Release: the task goes to wait without unlocking.
Release_KeepsLock(t, nodes, current, best, un, uc) ==
    LET live == Roots(nodes, current, best, un, uc, pending, NoSnapshot) \cap DOMAIN heap
        R(a) == IF a = Nil THEN Nil ELSE Cardinality({b \in live : b <= a})
    IN /\ mu' = mu
       /\ pc' = [pc EXCEPT ![t] = "wait"]
       /\ atLock' = NoSnapshot
       /\ heap' = [i \in 1..Cardinality(live) |-> heap[CHOOSE a \in live : R(a) = i]]
       /\ gNodes' = [i \in DOMAIN nodes |-> R(nodes[i])]
       /\ gCurrent' = R(current)
       /\ gBest' = R(best)
       /\ uNodes' = [i \in DOMAIN un |-> R(un[i])]
       /\ uCurrent' = R(uc)
       /\ pending' = [u \in Tasks |-> {R(a) : a \in pending[u]}]

\* mu.Unlock() by task t, which then waits.  nodes, current, best, un and uc are
\* the values gNodes, gCurrent, gBest, uNodes and uCurrent have after the step.
\* Objects no goroutine can reach any more are collected; pointers are only
\* ever compared for equality, so the objects left are renumbered 1..n in order.
Release(t, nodes, current, best, un, uc) ==
    LET live == Roots(nodes, current, best, un, uc, pending, NoSnapshot) \cap DOMAIN heap
        R(a) == IF a = Nil THEN Nil ELSE Cardinality({b \in live : b <= a})
    IN /\ mu' = IF mu = t THEN "none" ELSE mu
       /\ pc' = [pc EXCEPT ![t] = "wait"]
       /\ atLock' = NoSnapshot
       /\ heap' = [i \in 1..Cardinality(live) |-> heap[CHOOSE a \in live : R(a) = i]]
       /\ gNodes' = [i \in DOMAIN nodes |-> R(nodes[i])]
       /\ gCurrent' = R(current)
       /\ gBest' = R(best)
       /\ uNodes' = [i \in DOMAIN un |-> R(un[i])]
       /\ uCurrent' = R(uc)
       /\ pending' = [u \in Tasks |-> {R(a) : a \in pending[u]}]

(****************************** startNodeUpdater ***************************)
\* Lines 324-325, getNodes fails in the transport or in decoding.
U_FetchError ==
    /\ pc["updater"] = "fetch"
    /\ \E e \in {"transport", "decode"} : uErr' = e
    /\ uNodes' = <<>>
    /\ uCurrent' = Nil
    /\ pc' = [pc EXCEPT !["updater"] = "fetched"]
    /\ UNCHANGED <<gConfig, heap, gNodes, gCurrent, gBest, mu, pending, delay, tickLog, atLock>>
    /\ harnessFrame /\ observerFrame /\ cycleFrame

\* Lines 148-151, filterNodes cannot compile a pattern.
U_FetchRegexError ==
    /\ pc["updater"] = "fetch"
    /\ ~Compiles(gConfig.IncludeRegex) \/ ~Compiles(gConfig.ExcludeRegex)
    /\ uErr' = "regex"
    /\ uNodes' = <<>>
    /\ uCurrent' = Nil
    /\ pc' = [pc EXCEPT !["updater"] = "fetched"]
    /\ UNCHANGED <<gConfig, heap, gNodes, gCurrent, gBest, mu, pending, delay, tickLog, atLock>>
    /\ harnessFrame /\ observerFrame /\ cycleFrame

\* Lines 100-160, getNodes returns nodes and current: new ProxyNode objects,
\* Latency 0, Flow from the name.  The selector's now is what the service
\* reports in this answer (others may have changed it since the last one).
FetchOk(dir) ==
    /\ pc["updater"] = "fetch"
    /\ Compiles(gConfig.IncludeRegex) /\ Compiles(gConfig.ExcludeRegex)
    /\ LET kept == keptEntries(dir, gConfig)
           addrs == FreshAddrs(heap, Len(kept))
           found == {i \in DOMAIN kept : kept[i].name = currentName(dir, gConfig)}
       IN /\ heap' = [a \in DOMAIN heap \cup Range(addrs) |->
                         IF a \in DOMAIN heap THEN heap[a]
                         ELSE LET i == CHOOSE j \in DOMAIN addrs : addrs[j] = a
                              IN [name |-> kept[i].name, type |-> kept[i].type,
                                  alive |-> kept[i].alive, flow |-> getFlow(kept[i].name),
                                  latency |-> 0]]
          /\ uNodes' = addrs
          /\ uCurrent' = IF found = {} THEN Nil
                         ELSE addrs[CHOOSE i \in found : \A j \in found : i <= j]
          /\ uDir' = dir
          /\ service' = [service EXCEPT !.now = currentName(dir, gConfig)]
    /\ uErr' = "none"
    /\ pc' = [pc EXCEPT !["updater"] = "fetched"]
    /\ UNCHANGED <<gConfig, gNodes, gCurrent, gBest, mu, pending, delay, tickLog, atLock>>
    /\ harnessFrame /\ observerFrame

\* The service answers with any directory.
U_FetchOk == \E dir \in Directories : FetchOk(dir)

\* Mutant of U_Error: the globals are assigned before err is looked at.
U_Error_Assigns ==
    /\ pc["updater"] = "fetched"
    /\ uErr # "none"
    /\ uErr' = "none"
    /\ UNCHANGED <<gConfig, delay, tickLog>>
    /\ Release("updater", uNodes, uCurrent, gBest, <<>>, Nil)
    /\ uDir' = <<>>
    /\ UNCHANGED service
    /\ harnessFrame /\ observerFrame

\* Lines 325-330: err != nil; unlock, sleep 10 s, continue (wait).
U_Error ==
    /\ pc["updater"] = "fetched"
    /\ uErr # "none"
    /\ uErr' = "none"
    /\ UNCHANGED <<gConfig, delay, tickLog>>
    /\ Release("updater", gNodes, gCurrent, gBest, <<>>, Nil)
    /\ uDir' = <<>>
    /\ UNCHANGED service
    /\ harnessFrame /\ observerFrame

\* Mutant of U_Empty: the empty list is assigned like any other.
U_Empty_Replaces ==
    /\ pc["updater"] = "fetched"
    /\ uErr = "none"
    /\ Len(uNodes) = 0
    /\ uErr' = "none"
    /\ UNCHANGED <<gConfig, delay, tickLog>>
    /\ Release("updater", uNodes, uCurrent, gBest, <<>>, Nil)
    /\ uDir' = <<>>
    /\ UNCHANGED service
    /\ harnessFrame /\ observerFrame

\* Lines 331-336: len(nodes) == 0; unlock, sleep 10 s, continue (wait).
U_Empty ==
    /\ pc["updater"] = "fetched"
    /\ uErr = "none"
    /\ Len(uNodes) = 0
    /\ uErr' = "none"
    /\ UNCHANGED <<gConfig, delay, tickLog>>
    /\ Release("updater", gNodes, gCurrent, gBest, <<>>, Nil)
    /\ uDir' = <<>>
    /\ UNCHANGED service
    /\ harnessFrame /\ observerFrame

\* Mutant of U_Replace: gBest is set to nil with the replacement.
U_Replace_ResetsBest ==
    /\ pc["updater"] = "fetched"
    /\ uErr = "none"
    /\ Len(uNodes) # 0
    /\ uErr' = "none"
    /\ UNCHANGED <<gConfig, delay, tickLog>>
    /\ Release("updater", uNodes, uCurrent, Nil, <<>>, Nil)
    /\ uDir' = <<>>
    /\ UNCHANGED service
    /\ harnessFrame /\ observerFrame

\* Mutant of U_Replace: gNodes is replaced, gCurrent is left pointing to the old node.
U_Replace_KeepsCurrent ==
    /\ pc["updater"] = "fetched"
    /\ uErr = "none"
    /\ Len(uNodes) # 0
    /\ uErr' = "none"
    /\ UNCHANGED <<gConfig, delay, tickLog>>
    /\ Release("updater", uNodes, gCurrent, gBest, <<>>, Nil)
    /\ uDir' = <<>>
    /\ UNCHANGED service
    /\ harnessFrame /\ observerFrame

\* Lines 337-341: gNodes = nodes; gCurrent = current; unlock; wait for the ticker.
U_Replace ==
    /\ pc["updater"] = "fetched"
    /\ uErr = "none"
    /\ Len(uNodes) # 0
    /\ uErr' = "none"
    /\ UNCHANGED <<gConfig, delay, tickLog>>
    /\ Release("updater", uNodes, uCurrent, gBest, <<>>, Nil)
    /\ uDir' = <<>>
    /\ UNCHANGED service
    /\ harnessFrame /\ observerFrame

(****************************** selectFastestNode **************************)
\* Lines 249-270: one probe goroutine per node of gNodes is started.
StartProbes(t) == pending' = [pending EXCEPT ![t] = Range(gNodes)]

\* Lines 252-269: the goroutine of node a runs its trials, writes node.Latency
\* and calls wg.Done.
Worker(t) ==
    /\ pc[t] = "probe"
    /\ \E a \in pending[t] :
       \E trials \in [1..gConfig.TestTimes -> ProbeValues(gConfig)] :
          /\ heap' = [heap EXCEPT ![a].latency = TrialLatency(trials)]
          /\ pending' = [pending EXCEPT ![t] = @ \ {a}]
    /\ UNCHANGED <<gConfig, gNodes, gCurrent, gBest, mu, pc, uNodes, uCurrent, uErr,
                   delay, tickLog, atLock>>
    /\ harnessFrame /\ observerFrame /\ cycleFrame

\* Mutant of BarrierPassed: the search does not wait for the goroutines.
BarrierPassed_NoWait(t) == TRUE

\* Line 272: wg.Wait() returns.
BarrierPassed(t) == pending[t] = {}

(****************************** startBestNodeSelector **********************)
\* Line 351 is false: unlock, wait for the ticker.
S_Skip ==
    /\ pc["selector"] = "check"
    /\ ~(Len(gNodes) > 0 /\ gBest = Nil)
    /\ UNCHANGED <<gConfig, uErr, delay, tickLog>>
    /\ Release("selector", gNodes, gCurrent, gBest, uNodes, uCurrent)
    /\ harnessFrame /\ observerFrame /\ cycleFrame

\* Lines 351-353: selectFastestNode is entered.
S_Start ==
    /\ pc["selector"] = "check"
    /\ Len(gNodes) > 0 /\ gBest = Nil
    /\ StartProbes("selector")
    /\ pc' = [pc EXCEPT !["selector"] = "probe"]
    /\ UNCHANGED <<gConfig, heap, gNodes, gCurrent, gBest, mu, uNodes, uCurrent, uErr,
                   delay, tickLog, atLock>>
    /\ harnessFrame /\ observerFrame /\ cycleFrame

\* Lines 359-365: selectFastestNode returned a node; gBest = bestNode; unlock; wait.
S_SelectOk ==
    /\ pc["selector"] = "probe"
    /\ BarrierPassed("selector")
    /\ LET r == selectFastestNode(heap, gNodes, gConfig.LatencyThreshold)
       IN /\ r.outcome = "found"
          /\ Release("selector", gNodes, gCurrent, r.node, uNodes, uCurrent)
    /\ UNCHANGED <<gConfig, uErr, delay, tickLog>>
    /\ harnessFrame /\ observerFrame /\ cycleFrame

\* Lines 354-358: selectFastestNode returned the error; unlock, sleep 10 s, continue (wait).
S_SelectErr ==
    /\ pc["selector"] = "probe"
    /\ BarrierPassed("selector")
    /\ selectFastestNode(heap, gNodes, gConfig.LatencyThreshold).outcome = "error"
    /\ UNCHANGED <<gConfig, uErr, delay, tickLog>>
    /\ Release("selector", gNodes, gCurrent, gBest, uNodes, uCurrent)
    /\ harnessFrame /\ observerFrame /\ cycleFrame

(****************************** startCurrentNodeChecker ********************)
Event(op, node, name, ok, val) == [op |-> op, node |-> node, name |-> name, ok |-> ok, val |-> val]
NameOf(h, a) == IF a = Nil THEN <<>> ELSE h[a].name

\* Line 376: delay := testNode(gCurrent).
C_Test ==
    /\ pc["checker"] = "test"
    /\ \E d \in testNode(gCurrent, gConfig) :
          /\ delay' = d
          /\ tickLog' = Append(tickLog, Event("test", gCurrent, NameOf(heap, gCurrent), d # -1, d))
    /\ pc' = [pc EXCEPT !["checker"] = "decide"]
    /\ UNCHANGED <<gConfig, heap, gNodes, gCurrent, gBest, mu, uNodes, uCurrent, uErr,
                   pending, atLock>>
    /\ harnessFrame /\ observerFrame /\ cycleFrame

\* Line 377 is false: nothing to do but line 395.
C_Healthy ==
    /\ pc["checker"] = "decide"
    /\ ~Degraded(delay, gConfig)
    /\ pc' = [pc EXCEPT !["checker"] = "unlock"]
    /\ UNCHANGED <<gConfig, heap, gNodes, gCurrent, gBest, mu, uNodes, uCurrent, uErr,
                   pending, delay, tickLog, atLock>>
    /\ harnessFrame /\ observerFrame /\ cycleFrame

\* Mutant of C_StartSelect: mu is unlocked for the time of the probe batch.
C_StartSelect_Unlocks ==
    /\ pc["checker"] = "decide"
    /\ Degraded(delay, gConfig)
    /\ NeedsSelection(gBest, gCurrent)
    /\ StartProbes("checker")
    /\ pc' = [pc EXCEPT !["checker"] = "probe"]
    /\ mu' = "none"
    /\ UNCHANGED <<gConfig, heap, gNodes, gCurrent, gBest, uNodes, uCurrent, uErr,
                   delay, tickLog, atLock>>
    /\ harnessFrame /\ observerFrame /\ cycleFrame

\* Lines 377-380: degraded, and gBest is nil or is gCurrent: selectFastestNode is entered.
C_StartSelect ==
    /\ pc["checker"] = "decide"
    /\ Degraded(delay, gConfig)
    /\ NeedsSelection(gBest, gCurrent)
    /\ StartProbes("checker")
    /\ pc' = [pc EXCEPT !["checker"] = "probe"]
    /\ UNCHANGED <<gConfig, heap, gNodes, gCurrent, gBest, mu, uNodes, uCurrent, uErr,
                   delay, tickLog, atLock>>
    /\ harnessFrame /\ observerFrame /\ cycleFrame

\* Lines 377-378, 387: degraded, and gBest is another node: straight to switchNode.
C_UseCached ==
    /\ pc["checker"] = "decide"
    /\ Degraded(delay, gConfig)
    /\ ~NeedsSelection(gBest, gCurrent)
    /\ pc' = [pc EXCEPT !["checker"] = "switch"]
    /\ UNCHANGED <<gConfig, heap, gNodes, gCurrent, gBest, mu, uNodes, uCurrent, uErr,
                   pending, delay, tickLog, atLock>>
    /\ harnessFrame /\ observerFrame /\ cycleFrame

\* Line 380, err == nil: gBest is the node selectFastestNode returned.
C_SelectOk ==
    /\ pc["checker"] = "probe"
    /\ BarrierPassed("checker")
    /\ LET r == selectFastestNode(heap, gNodes, gConfig.LatencyThreshold)
       IN /\ r.outcome = "found"
          /\ gBest' = r.node
          /\ tickLog' = Append(tickLog, Event("select", r.node, NameOf(heap, r.node), TRUE, 0))
    /\ pc' = [pc EXCEPT !["checker"] = "switch"]
    /\ UNCHANGED <<gConfig, heap, gNodes, gCurrent, mu, uNodes, uCurrent, uErr,
                   pending, delay, atLock>>
    /\ harnessFrame /\ observerFrame /\ cycleFrame

\* Mutant of C_SelectErr: the result of the failed run is not assigned; gBest
\* is left as it was.
C_SelectErr_KeepsBest ==
    /\ pc["checker"] = "probe"
    /\ BarrierPassed("checker")
    /\ selectFastestNode(heap, gNodes, gConfig.LatencyThreshold).outcome = "error"
    /\ tickLog' = Append(tickLog, Event("select", Nil, <<>>, FALSE, 0))
    /\ pc' = [pc EXCEPT !["checker"] = "unlock"]
    /\ UNCHANGED <<gConfig, heap, gNodes, gCurrent, gBest, mu, uNodes, uCurrent, uErr,
                   pending, delay, atLock>>
    /\ harnessFrame /\ observerFrame /\ cycleFrame

\* Mutant of C_SelectErr: the error is logged, gBest is left as it was and the
\* code falls through to switchNode.
C_SelectErr_FallsThrough ==
    /\ pc["checker"] = "probe"
    /\ BarrierPassed("checker")
    /\ selectFastestNode(heap, gNodes, gConfig.LatencyThreshold).outcome = "error"
    /\ tickLog' = Append(tickLog, Event("select", Nil, <<>>, FALSE, 0))
    /\ pc' = [pc EXCEPT !["checker"] = "switch"]
    /\ UNCHANGED <<gConfig, heap, gNodes, gCurrent, gBest, mu, uNodes, uCurrent, uErr,
                   pending, delay, atLock>>
    /\ harnessFrame /\ observerFrame /\ cycleFrame

\* Lines 380-385, err != nil: gBest is the nil that came with the error; unlock; continue.
C_SelectErr ==
    /\ pc["checker"] = "probe"
    /\ BarrierPassed("checker")
    /\ selectFastestNode(heap, gNodes, gConfig.LatencyThreshold).outcome = "error"
    /\ gBest' = Nil
    /\ tickLog' = Append(tickLog, Event("select", Nil, <<>>, FALSE, 0))
    /\ pc' = [pc EXCEPT !["checker"] = "unlock"]
    /\ UNCHANGED <<gConfig, heap, gNodes, gCurrent, mu, uNodes, uCurrent, uErr,
                   pending, delay, atLock>>
    /\ harnessFrame /\ observerFrame /\ cycleFrame

\* Lines 387, 390-393: the PUT of switchNode(gBest) is answered 2xx, the service
\* has made gBest.Name the selector's now; gCurrent = gBest.
C_SwitchOk ==
    /\ pc["checker"] = "switch"
    /\ gBest # Nil
    /\ tickLog' = Append(tickLog, Event("switch", gBest, NameOf(heap, gBest), TRUE, 0))
    /\ gCurrent' = gBest
    /\ service' = [service EXCEPT !.now = NameOf(heap, gBest)]
    /\ pc' = [pc EXCEPT !["checker"] = "unlock"]
    /\ UNCHANGED <<gConfig, heap, gNodes, gBest, mu, uNodes, uCurrent, uErr,
                   pending, delay, atLock, uDir>>
    /\ harnessFrame /\ observerFrame

\* Mutant of C_SwitchFail: gCurrent is assigned although the switch failed.
C_SwitchFail_Assigns ==
    /\ pc["checker"] = "switch"
    /\ tickLog' = IF gBest = Nil THEN tickLog
                  ELSE Append(tickLog, Event("switch", gBest, NameOf(heap, gBest), FALSE, 0))
    /\ gCurrent' = gBest
    /\ pc' = [pc EXCEPT !["checker"] = "unlock"]
    /\ UNCHANGED <<gConfig, heap, gNodes, gBest, mu, uNodes, uCurrent, uErr,
                   pending, delay, atLock>>
    /\ harnessFrame /\ observerFrame /\ cycleFrame

\* Lines 387-389: switchNode(gBest) returns an error: gBest is nil (no request
\* is made), or the PUT fails or is answered outside 2xx.
C_SwitchFail ==
    /\ pc["checker"] = "switch"
    /\ tickLog' = IF gBest = Nil THEN tickLog
                  ELSE Append(tickLog, Event("switch", gBest, NameOf(heap, gBest), FALSE, 0))
    /\ pc' = [pc EXCEPT !["checker"] = "unlock"]
    /\ UNCHANGED <<gConfig, heap, gNodes, gCurrent, gBest, mu, uNodes, uCurrent, uErr,
                   pending, delay, atLock>>
    /\ harnessFrame /\ observerFrame /\ cycleFrame

\* Lines 383 and 395: mu.Unlock(); the next tick is waited for.
C_Unlock ==
    /\ pc["checker"] = "unlock"
    /\ delay' = NoDelay
    /\ tickLog' = <<>>
    /\ prevSwitchFailed' = (\E i \in DOMAIN tickLog : tickLog[i].op = "switch" /\ ~tickLog[i].ok)
    /\ UNCHANGED <<gConfig, uErr>>
    /\ Release("checker", gNodes, gCurrent, gBest, uNodes, uCurrent)
    /\ harnessFrame /\ cycleFrame

Next ==
    \/ \E t \in Tasks : Lock(t)
    \/ U_FetchError \/ U_FetchRegexError \/ U_FetchOk
    \/ U_Error \/ U_Empty \/ U_Replace
    \/ \E t \in {"selector", "checker"} : Worker(t)
    \/ S_Skip \/ S_Start \/ S_SelectOk \/ S_SelectErr
    \/ C_Test \/ C_Healthy \/ C_StartSelect \/ C_UseCached
    \/ C_SelectOk \/ C_SelectErr \/ C_SwitchOk \/ C_SwitchFail \/ C_Unlock

Spec == Init /\ [][Next]_vars

(***************************************************************************)
(* The controller against a control service that behaves: its directory is *)
(* fixed (A and B2x alive, the selector's now what the last PUT made it),  *)
(* every request is answered, the delay test of B2x always gives the base  *)
(* threshold, and that of A does until an outage of A, which lasts.        *)
(***************************************************************************)
LiveDir(now) ==
    <<Entry(NameS, "Selector", TRUE, now),
      Entry(NameA, "Shadowsocks", TRUE, <<>>), Entry(NameB, "Shadowsocks", TRUE, <<>>),
      Entry(NameG, "URLTest", TRUE, NameA), Entry(NameD, "Shadowsocks", TRUE, <<>>)>>

\* The delay the service reports for an endpoint.
LiveProbe(name) == IF name \in service.down THEN -1 ELSE gConfig.LatencyThreshold

LiveInit == Init /\ gConfig = GoodConfig

L_Fetch == FetchOk(LiveDir(service.now))

L_Worker(t) ==
    /\ Worker(t)
    /\ \A a \in pending[t] \ pending'[t] : heap'[a].latency = LiveProbe(heap[a].name)

L_Test == C_Test /\ delay' = (IF gCurrent = Nil THEN -1 ELSE LiveProbe(heap[gCurrent].name))

\* From here on the delay test of A fails, and nothing at the service changes
\* any more but the selector's now.
Outage ==
    /\ ~service.fixed
    /\ service' = [service EXCEPT !.down = {NameA}, !.fixed = TRUE]
    /\ UNCHANGED <<gConfig, heap, gNodes, gCurrent, gBest, mu, pc, uNodes, uCurrent, uErr,
                   pending, delay, tickLog, prevSwitchFailed, atLock, uDir>>
    /\ harnessFrame

UpdaterStep == L_Fetch \/ U_Replace
SelectorStep == L_Worker("selector") \/ S_Skip \/ S_Start \/ S_SelectOk
CheckerStep ==
    \/ L_Worker("checker") \/ L_Test \/ C_Healthy \/ C_StartSelect \/ C_UseCached
    \/ C_SelectOk \/ C_SelectErr \/ C_SwitchOk \/ C_Unlock

\* A task: taking the mutex, then its steps up to the unlock.
UpdaterTask == Lock("updater") \/ UpdaterStep
SelectorTask == Lock("selector") \/ SelectorStep
CheckerTask == Lock("checker") \/ CheckerStep

LiveNext == UpdaterTask \/ SelectorTask \/ CheckerTask \/ Outage

\* Every task gets the mutex again and again (sync.Mutex hands the lock to a
\* goroutine that has waited for 1 ms), and a task that holds it keeps running.
SpecLive ==
    /\ LiveInit /\ [][LiveNext]_vars
    /\ SF_vars(UpdaterTask) /\ SF_vars(SelectorTask) /\ SF_vars(CheckerTask)


(***************************************************************************)
(* filterNodes and getFlow run on their own, on every input of the bounds. *)
(***************************************************************************)
\* Everything but `pure` at rest: no task has started, no pool, no search.
AtRest ==
    /\ gConfig = GoodConfig
    /\ heap = <<>>
    /\ gNodes = <<>>
    /\ gCurrent = Nil
    /\ gBest = Nil
    /\ mu = "none"
    /\ pc = [t \in Tasks |-> "wait"]
    /\ uNodes = <<>>
    /\ uCurrent = Nil
    /\ uErr = "none"
    /\ pending = [t \in Tasks |-> {}]
    /\ delay = NoDelay
    /\ tickLog = <<>>
    /\ prevSwitchFailed = FALSE
    /\ atLock = NoSnapshot
    /\ latencyThreshold = 0
    /\ selPc = "done"
    /\ selResult = Nil
    /\ selRounds = 0
    /\ uDir = <<>>
    /\ service = NoService

pureFrame ==
    UNCHANGED <<gConfig, heap, gNodes, gCurrent, gBest, mu, pc,
                uNodes, uCurrent, uErr, pending, delay, tickLog, prevSwitchFailed, atLock,
                latencyThreshold, selPc, selResult, selRounds, uDir, service>>

\* All sequences of at most n elements of S.
SeqsUpTo(S, n) == UNION {[1..k -> S] : k \in 0..n}

FilterNames == {NameA, NameB, NameD, <<"H", "K">>}
FilterPatterns == {<<>>, <<"x">>, <<"1", "0", "x">>, <<"A">>, <<"2">>}
FilterLists == SeqsUpTo({Entry(n, "Shadowsocks", TRUE, <<>>) : n \in FilterNames}, MaxList)

FilterInit ==
    /\ AtRest
    /\ \E nodes \in FilterLists, inc \in FilterPatterns, exc \in FilterPatterns :
          pure = [op |-> "filterNodes", pc |-> "call", nodes |-> nodes,
                  config |-> [IncludeRegex |-> inc, ExcludeRegex |-> exc],
                  once |-> <<>>, twice |-> <<>>]

\* filterNodes(nodes).
FilterOnce ==
    /\ pure.op = "filterNodes" /\ pure.pc = "call"
    /\ Compiles(pure.config.IncludeRegex) /\ Compiles(pure.config.ExcludeRegex)
    /\ pure' = [pure EXCEPT !.once = filterNodes(pure.nodes, pure.config), !.pc = "again"]
    /\ pureFrame

\* filterNodes applied to the list it returned.
FilterTwice ==
    /\ pure.op = "filterNodes" /\ pure.pc = "again"
    /\ pure' = [pure EXCEPT !.twice = filterNodes(pure.once, pure.config), !.pc = "done"]
    /\ pureFrame

FilterNext == FilterOnce \/ FilterTwice

SpecFilter == FilterInit /\ [][FilterNext]_vars

RECURSIVE Concat(_)
Concat(pieces) == IF pieces = <<>> THEN <<>> ELSE pieces[1] \o Concat(Tail(pieces))

NamePieces ==
    {<<"1", ".", "5", "x">>, <<"2", "x">>, <<"(">>, <<")">>, <<"H">>, <<"1">>, <<".">>, <<"x">>, <<"0">>}
FlowNames == {Concat(q) : q \in SeqsUpTo(NamePieces, MaxPieces)}

FlowInit ==
    /\ AtRest
    /\ \E name \in FlowNames : pure = [op |-> "getFlow", pc |-> "call", name |-> name, flow |-> 0]

\* getFlow(name).
FlowCall ==
    /\ pure.op = "getFlow" /\ pure.pc = "call"
    /\ pure' = [pure EXCEPT !.flow = getFlow(pure.name), !.pc = "done"]
    /\ pureFrame

FlowNext == FlowCall

SpecFlow == FlowInit /\ [][FlowNext]_vars

\* What testNode returns in the trials of one probe goroutine.
TrialValues == {-1, 0, 1, 2, 5}

TrialInit ==
    /\ AtRest
    /\ \E trials \in SeqsUpTo(TrialValues, MaxTrials) :
          pure = [op |-> "probe", pc |-> "call", trials |-> trials, latency |-> 0]

\* Lines 254-268: the goroutine's trials are over and node.Latency is written.
TrialRun ==
    /\ pure.op = "probe" /\ pure.pc = "call"
    /\ pure' = [pure EXCEPT !.latency = TrialLatency(pure.trials), !.pc = "done"]
    /\ pureFrame

TrialNext == TrialRun

SpecTrial == TrialInit /\ [][TrialNext]_vars


(***************************************************************************)
(* Claims about the escalation loop (SpecSelect, SpecSelectFair).          *)
(***************************************************************************)
T == gConfig.LatencyThreshold
Returned == selPc = "done" /\ selResult # Nil
Failed == selPc = "done" /\ selResult = Nil
Qualifies(a, threshold) == heap[a].latency > 0 /\ heap[a].latency <= threshold
IsScenario(pool, base) == heap = PoolHeap(pool) /\ T = base
ScenarioA ==
    << [flow |-> FlowUnit, latency |-> 100], [flow |-> FlowUnit, latency |-> 50],
       [flow |-> 2 * FlowUnit, latency |-> 10] >>
ScenarioB ==
    << [flow |-> FlowUnit, latency |-> 100], [flow |-> FlowUnit, latency |-> -1],
       [flow |-> 2 * FlowUnit, latency |-> 10] >>
ScenarioC ==
    << [flow |-> FlowUnit, latency |-> 300], [flow |-> FlowUnit, latency |-> 300],
       [flow |-> 2 * FlowUnit, latency |-> 300] >>

\* C3: the node returned at a threshold is never of a tier c while a node of a
\* cheaper tier has 0 < latency <= that threshold; scenario A (X 1.0/100,
\* Y 1.0/50, Z 2.0/10, threshold 120) returns Y, the second node.
C3_CheaperTierFirst ==
    /\ Returned =>
          \A a \in Range(gNodes) :
              heap[a].flow < heap[selResult].flow => ~Qualifies(a, latencyThreshold)
    /\ (selPc = "done" /\ IsScenario(ScenarioA, 120)) => selResult = 2

\* C3 witness: scenario A has returned Y although Z, of the dearer tier, is faster.
C3_Witness ==
    /\ Returned /\ IsScenario(ScenarioA, 120)
    /\ selResult = 2
    /\ heap[3].latency < heap[2].latency /\ heap[3].flow > heap[2].flow

\* C4: a node whose latency is -1 is never returned, at the base threshold or at
\* a raised one; scenario B (Y's latency -1) returns X, the first node.
C4_NoSignalNeverReturned ==
    /\ Returned => heap[selResult].latency # -1
    /\ (selPc = "done" /\ IsScenario(ScenarioB, 120)) => selResult = 1

\* C4 witness: a run has returned a node from a pool that holds a node with
\* latency -1 in the cheapest tier, once at the base threshold (scenario B) ...
C4_Witness ==
    /\ Returned /\ IsScenario(ScenarioB, 120) /\ selResult = 1
    /\ heap[2].latency = -1

\* ... and once at a raised threshold.
C4_WitnessEscalated ==
    /\ Returned /\ latencyThreshold > T
    /\ \E a \in Range(gNodes) : heap[a].latency = -1 /\ heap[a].flow < heap[selResult].flow

\* C5: the escalation loop ends for every base threshold, after at most the
\* searches needed for the threshold to cross 2T.  A threshold that grows at
\* every search crosses 2T from T within T + 1 searches, so the claim bounds the
\* searches of any run by T + 1.
C5_EscalationTerminates == selRounds <= T + 1

\* C6: the thresholds searched are T, T + T/10, T + 2*(T/10), ..., each <= 2T;
\* no node with latency above 2T is returned; and when every latency of the
\* (non-empty) pool is above 2T the run fails, as in scenario C (T = 100, all
\* latencies 300: searches at 100, 110, ..., 200, then the failure).
AllAboveBound == gNodes # <<>> /\ \A a \in Range(gNodes) : heap[a].latency > 2 * T
OnSequence ==
    selPc = "search" =>
        /\ latencyThreshold <= 2 * T
        /\ GoDiv(T, 10) > 0 => latencyThreshold = T + selRounds * GoDiv(T, 10)
        /\ GoDiv(T, 10) = 0 => latencyThreshold = T
C6_ThresholdSequence ==
    /\ []OnSequence
    /\ [](Returned => heap[selResult].latency <= 2 * T)
    /\ [](selPc = "done" /\ IsScenario(ScenarioC, 100) => selResult = Nil /\ selRounds = 11)
    /\ (AllAboveBound ~> Failed)

\* The safety part of C6 alone: it holds for every base threshold of the bounds.
C6_SequenceSafety ==
    /\ OnSequence
    /\ Returned => heap[selResult].latency <= 2 * T
    /\ (selPc = "done" /\ IsScenario(ScenarioC, 100)) => (selResult = Nil /\ selRounds = 11)

(***************************************************************************)
(* Claims about the controller (Spec).                                     *)
(***************************************************************************)
InCriticalSection(t) == ~Idle(t)
SharedAsAtLock ==
    /\ atLock.taken
    /\ gNodes = atLock.nodes /\ gCurrent = atLock.current /\ gBest = atLock.best
    /\ heap = atLock.heap
Events(op) == {i \in DOMAIN tickLog : tickLog[i].op = op}
TickEnd == pc["checker"] = "unlock"

\* C1: the three tasks exclude each other: a task that is anywhere between its
\* mu.Lock() and its mu.Unlock() (fetch-then-replace, probe-then-select,
\* check-then-switch, probe goroutines included) holds mu, so no two are.
C1_MutualExclusion ==
    /\ \A t \in Tasks : InCriticalSection(t) => mu = t
    /\ \A t \in Tasks : pending[t] # {} => mu = t
    /\ Cardinality({t \in Tasks : InCriticalSection(t)}) <= 1

\* C1 witness: the selector is in the middle of its probe batch over a pool,
\* holding mu, while the updater and the checker wait.
C1_Witness ==
    /\ mu = "selector" /\ pc["selector"] = "probe"
    /\ pending["selector"] # {} /\ pending["selector"] # Range(gNodes)
    /\ Idle("updater") /\ Idle("checker")

\* C2: when getNodes fails, gNodes, gCurrent and gBest (and the nodes they
\* point to) are after the cycle what they were at its mu.Lock(), and the
\* updater is back waiting, without the lock, to try again.
C2_FetchFailureKeepsState ==
    [][(pc["updater"] = "fetched" /\ uErr # "none") =>
          /\ SharedAsAtLock
          /\ gNodes' = atLock.nodes /\ gCurrent' = atLock.current /\ gBest' = atLock.best
          /\ heap' = atLock.heap
          /\ pc'["updater"] = "wait" /\ mu' = "none"]_vars

\* C2 witness: a fetch has failed while a pool, an active and a preferred node exist.
C2_Witness ==
    /\ pc["updater"] = "fetched" /\ uErr # "none"
    /\ gNodes # <<>> /\ gCurrent # Nil /\ gBest # Nil /\ gBest # gCurrent

\* C7: at the end of a failover tick whose probe returned -1 with gBest nil at
\* the start, the selection has run in the tick; if it returned a node, exactly
\* one switch request followed it, naming that node; and if the switch
\* succeeded, gCurrent is that node, the new gBest.
C7_FailoverSelectsThenSwitches ==
    (TickEnd /\ tickLog[1].val = -1 /\ atLock.best = Nil) =>
        /\ Len(tickLog) >= 2 /\ tickLog[2].op = "select"
        /\ Events("select") = {2}
        /\ tickLog[2].ok =>
              /\ Events("switch") = {3} /\ Len(tickLog) = 3
              /\ tickLog[3].node = tickLog[2].node
              /\ tickLog[3].name = heap[tickLog[2].node].name
              /\ gBest = tickLog[2].node
              /\ tickLog[3].ok => gCurrent = gBest
        /\ ~tickLog[2].ok => Events("switch") = {}

\* C7 witness: such a tick, with a real probe of an active node, has switched
\* to another node.
C7_Witness ==
    /\ TickEnd /\ tickLog[1].val = -1 /\ atLock.best = Nil /\ atLock.current # Nil
    /\ Len(tickLog) = 3 /\ tickLog[3].op = "switch" /\ tickLog[3].ok
    /\ gCurrent = gBest /\ gCurrent # atLock.current

FailedSwitch == \E i \in Events("switch") : ~tickLog[i].ok
SelectionFailed == \E i \in Events("select") : ~tickLog[i].ok
IsDegraded == delay = -1 \/ delay > 2 * T

\* C8 as claimed: a tick whose switch request failed has left gCurrent and
\* gBest as they were at its start; the next tick that finds gCurrent degraded
\* issues the switch again; gCurrent changes only with a switch that succeeded.
C8_Original ==
    TickEnd =>
        /\ FailedSwitch => (gCurrent = atLock.current /\ gBest = atLock.best)
        /\ (prevSwitchFailed /\ IsDegraded) => Events("switch") # {}
        /\ gCurrent # atLock.current =>
              \E i \in Events("switch") : tickLog[i].ok /\ gCurrent = tickLog[i].node

\* C8 as amended: a tick whose switch request failed has left gCurrent as it
\* was, and gBest as it was when the switch was issued (the cached node, or the
\* node the selection of this tick returned); the next tick that finds gCurrent
\* degraded issues the switch again unless the selection it has to run first
\* fails; gCurrent changes only with a switch that succeeded.
C8_SwitchFailure ==
    TickEnd =>
        /\ FailedSwitch =>
              /\ gCurrent = atLock.current
              /\ \E i \in Events("switch") : gBest = tickLog[i].node
              /\ Events("select") = {} => gBest = atLock.best
              /\ \A i \in Events("select") : gBest = tickLog[i].node
        /\ (prevSwitchFailed /\ IsDegraded) => (Events("switch") # {} \/ SelectionFailed)
        /\ gCurrent # atLock.current =>
              \E i \in Events("switch") : tickLog[i].ok /\ gCurrent = tickLog[i].node

\* C8 witness: the tick after a failed switch found gCurrent degraded again,
\* issued the switch again, and it failed again.
C8_Witness ==
    /\ TickEnd /\ prevSwitchFailed /\ IsDegraded /\ FailedSwitch
    /\ gCurrent = atLock.current /\ gCurrent # Nil

\* C9: when the selection run of a failover tick fails, the tick issues no
\* switch request and leaves gCurrent as it was; its next step is the unlock
\* that takes the checker back to waiting for its next tick.
C9_SelectionFailureNoSwitch ==
    /\ [](SelectionFailed => (Events("switch") = {} /\ gCurrent = atLock.current))
    /\ [](SelectionFailed => TickEnd)
    /\ [][(SelectionFailed /\ TickEnd) => (pc'["checker"] = "wait" /\ mu' = "none")]_vars

\* C9 witness: the selection failed in a tick that started with an active node
\* and a pool, once with the pool's nodes all without signal.
C9_Witness ==
    /\ TickEnd /\ SelectionFailed
    /\ gCurrent # Nil /\ gNodes # <<>>

\* C10: in a failover tick whose probe is not -1 and is <= 2T, no selection
\* runs, no switch request is issued and gNodes, gCurrent, gBest (and the
\* nodes) stay as they were; a switch request is only issued in a tick whose
\* probe was -1 or above 2T.
C10_HealthyTickDoesNothing ==
    /\ (delay # NoDelay /\ delay # -1 /\ delay <= 2 * T) =>
          /\ Len(tickLog) = 1
          /\ pending["checker"] = {}
          /\ pc["checker"] \in {"decide", "unlock"}
          /\ SharedAsAtLock
    /\ Events("switch") # {} => (tickLog[1].val = -1 \/ tickLog[1].val > 2 * T)

\* C10 witness: a tick has ended whose probe was exactly 2T, with a pool and a
\* preferred node other than the active one at hand.
C10_Witness ==
    /\ TickEnd /\ delay = 2 * T
    /\ gNodes # <<>> /\ gBest # Nil /\ gBest # gCurrent

DegradedTick == TickEnd /\ (tickLog[1].val = -1 \/ tickLog[1].val > 2 * T)
SameName(h, a, b) == a # Nil /\ b # Nil /\ h[a].name = h[b].name
NamesOf(h, nodes) == {h[a].name : a \in Range(nodes)}

\* C11: a failover tick that finds gCurrent degraded while gBest names the same
\* endpoint as gCurrent (the same object, or an object of an older snapshot
\* with the same name) runs the selection in that tick, and before any switch
\* request of the tick.
C11_SameNameRunsSelector ==
    (DegradedTick /\ SameName(atLock.heap, atLock.best, atLock.current)) =>
        /\ Events("select") # {}
        /\ \A i \in Events("switch") : \E j \in Events("select") : j < i

\* C12: every tick of the selector task that finds gNodes non-empty starts a
\* probe batch over all of gNodes, whatever gBest is; and a batch whose
\* selection succeeds ends with gBest the node selected.
C12_SelectorProbesEveryTick ==
    /\ [][(pc["selector"] = "check" /\ Len(gNodes) > 0 /\ pc'["selector"] # "check") =>
            (pc'["selector"] = "probe" /\ pending'["selector"] = Range(gNodes))]_vars
    /\ [][(pc["selector"] = "probe" /\ pc'["selector"] # "probe"
            /\ selectFastestNode(heap, gNodes, T).outcome = "found") =>
            (gBest' # Nil
             /\ heap'[gBest'] = heap[selectFastestNode(heap, gNodes, T).node])]_vars

\* C13: a switch request names a node of the current gNodes: the very object
\* (gBest was selected from this snapshot), and so an endpoint whose name is in
\* the current pool.
C13_SwitchNamesCurrentMember ==
    \A i \in Events("switch") :
        /\ tickLog[i].node \in Range(gNodes)
        /\ tickLog[i].name \in NamesOf(heap, gNodes)

\* The weaker half of C13 alone: the name switched to is a name of the current pool.
C13_SwitchNameInPool ==
    \A i \in Events("switch") : tickLog[i].name \in NamesOf(heap, gNodes)

Replacing == pc["updater"] = "fetched" /\ uErr = "none" /\ uNodes # <<>>
ActiveStillPresent == gCurrent # Nil /\ heap[gCurrent].name \in NamesOf(heap, uNodes)

\* C14 as claimed: when the node gCurrent names is still in the new filtered
\* snapshot, gCurrent names it after the replacement too.
C14_Original ==
    [][(Replacing /\ ActiveStillPresent) =>
          (gCurrent' # Nil /\ heap'[gCurrent'].name = heap[gCurrent].name)]_vars

\* C14 as amended: when the node gCurrent names is still in the new filtered
\* snapshot and the selector entry of that snapshot reports it as its now,
\* gCurrent is after the replacement the new snapshot's node of that name, with
\* latency 0 (not measured).
C14_ActiveKeptWhenReported ==
    [][(Replacing /\ ActiveStillPresent
        /\ currentName(uDir, gConfig) = heap[gCurrent].name) =>
          /\ gCurrent' \in Range(gNodes')
          /\ heap'[gCurrent'].name = heap[gCurrent].name
          /\ heap'[gCurrent'].latency = 0]_vars

\* C14 witness: a snapshot is about to replace the pool; the active node has a
\* measured latency, is still in the new snapshot and is still the selector's now.
C14_Witness ==
    /\ Replacing /\ ActiveStillPresent
    /\ currentName(uDir, gConfig) = heap[gCurrent].name
    /\ heap[gCurrent].latency > 0
    /\ gCurrent \in Range(gNodes)

\* The activeTarget the selector entry of a directory reports.
ActiveTarget(dir) ==
    LET sel == {i \in DOMAIN dir : dir[i].name = gConfig.SelectNode}
    IN IF sel = {} THEN <<>> ELSE dir[CHOOSE i \in sel : TRUE].now
NameSeq(h, nodes) == [i \in DOMAIN nodes |-> h[nodes[i]].name]

\* C18: the step that ends a successful non-empty snapshot cycle is taken with
\* mu held and leaves gNodes the new nodes and gCurrent the one of them whose
\* name is the now the selector entry reported, nil when none of them has that
\* name; the lock is released by the same step.
C18_ActiveResolvedFromSelector ==
    [][Replacing =>
          /\ mu = "updater" /\ mu' = "none"
          /\ NameSeq(heap', gNodes') = NameSeq(heap, uNodes)
          /\ IF ActiveTarget(uDir) \in NamesOf(heap, uNodes)
             THEN gCurrent' \in Range(gNodes') /\ heap'[gCurrent'].name = ActiveTarget(uDir)
             ELSE gCurrent' = Nil]_vars

\* C18 witness: a snapshot is about to make active a node of another name ...
C18_Witness ==
    /\ Replacing /\ gCurrent # Nil
    /\ ActiveTarget(uDir) \in NamesOf(heap, uNodes)
    /\ ActiveTarget(uDir) # heap[gCurrent].name

\* ... or to unset it, the reported now not being in the filtered list.
C18_WitnessUnset ==
    /\ Replacing /\ gCurrent # Nil
    /\ ActiveTarget(uDir) \notin NamesOf(heap, uNodes)

FromEntry(node, dir) ==
    \E i \in DOMAIN dir :
        /\ dir[i].name = node.name /\ dir[i].type = node.type /\ dir[i].alive = node.alive
        /\ dir[i].type \notin {"Selector", "Direct", "URLTest", "Fallback", "LoadBalance", "Reject"}
        /\ dir[i].alive

\* C19: every node of gNodes (and of the nodes getNodes has just returned) is of
\* a type outside the ignore list, was alive, does not have the selector's name
\* and has a name the include pattern matches and the exclude pattern does not;
\* the nodes getNodes returns come from such entries of the directory it read.
C19_EndpointsAreSelectableEntries ==
    /\ \A a \in Range(gNodes) \cup Range(uNodes) :
          /\ heap[a].type \notin {"Selector", "Direct", "URLTest", "Fallback", "LoadBalance", "Reject"}
          /\ heap[a].alive
          /\ heap[a].name # gConfig.SelectNode
          /\ MatchString(gConfig.IncludeRegex, heap[a].name)
          /\ ~MatchString(gConfig.ExcludeRegex, heap[a].name)
    /\ \A a \in Range(uNodes) : FromEntry(heap[a], uDir)

\* C19 witness: the pool in use is one node, the directory's other endpoint
\* (not alive), its selector, its group and its excluded endpoint all left out.
C19_Witness ==
    /\ Len(gNodes) = 1 /\ Idle("updater")
    /\ gCurrent \in Range(gNodes)

Selecting(t) == pc[t] = "probe"
Measured(latency) == latency = -1 \/ latency > 0

\* C20: the step that takes a task out of selectFastestNode (grouping, search
\* and return) is taken only when every probe goroutine of the run has finished,
\* every node of gNodes then having the latency its goroutine wrote; and a
\* goroutine that finishes, with or without signal, takes only itself off the
\* goroutines waited for and writes only its own node.
C20_ProbeBarrier ==
    /\ [][\A t \in {"selector", "checker"} :
            (Selecting(t) /\ ~Selecting(t)') =>
                /\ pending[t] = {}
                /\ \A a \in Range(gNodes) : Measured(heap[a].latency)]_vars
    /\ [][\A t \in {"selector", "checker"} :
            (Selecting(t) /\ pending'[t] # pending[t]) =>
                \E a \in pending[t] :
                    /\ pending'[t] = pending[t] \ {a}
                    /\ Selecting(t)'
                    /\ Measured(heap'[a].latency)
                    /\ \A b \in DOMAIN heap \ {a} : heap'[b] = heap[b]]_vars

\* C20 witness: a run over two nodes is at its barrier with every goroutine
\* finished, one node without signal and the other measured.
C20_Witness ==
    \E t \in {"selector", "checker"} :
        /\ Selecting(t) /\ pending[t] = {} /\ Len(gNodes) = 2
        /\ \E a, b \in Range(gNodes) : heap[a].latency = -1 /\ heap[b].latency > 0

(***************************************************************************)
(* Claims about filterNodes (SpecFilter) and getFlow (SpecFlow).           *)
(***************************************************************************)
Filtered == pure.op = "filterNodes" /\ pure.pc = "done"
\* A literal pattern matches a name that contains it.
Contains(name, lit) ==
    \E i \in 1..(Len(name) + 1) :
        i + Len(lit) - 1 <= Len(name) /\ \A k \in 1..Len(lit) : name[i + k - 1] = lit[k]
ShouldPass(name, config) ==
    Contains(name, config.IncludeRegex) /\ ~Contains(name, config.ExcludeRegex)
RECURSIVE KeepPassing(_, _)
KeepPassing(nodes, config) ==
    IF nodes = <<>> THEN <<>>
    ELSE (IF ShouldPass(nodes[1].name, config) THEN <<nodes[1]>> ELSE <<>>)
         \o KeepPassing(Tail(nodes), config)

\* C16: filterNodes applied to its own output returns that output; and the
\* output holds, in order, exactly the nodes whose name the include pattern
\* matches and the exclude pattern does not.
C16_FilterIdempotent ==
    Filtered =>
        /\ pure.twice = pure.once
        /\ pure.once = KeepPassing(pure.nodes, pure.config)
        /\ \A i \in DOMAIN pure.nodes :
              (pure.nodes[i] \in Range(pure.once)) <=> ShouldPass(pure.nodes[i].name, pure.config)

\* C16 witness: a list of three nodes of which the include pattern removed one
\* and the exclude pattern another has been filtered twice.
C16_Witness ==
    /\ Filtered /\ Len(pure.nodes) = 3 /\ Len(pure.once) = 1
    /\ pure.config.IncludeRegex # <<>> /\ pure.config.ExcludeRegex # <<>>
    /\ \E i \in DOMAIN pure.nodes : ~Contains(pure.nodes[i].name, pure.config.IncludeRegex)
    /\ \E i \in DOMAIN pure.nodes :
          /\ Contains(pure.nodes[i].name, pure.config.IncludeRegex)
          /\ Contains(pure.nodes[i].name, pure.config.ExcludeRegex)

FlowDone == pure.op = "getFlow" /\ pure.pc = "done"
\* A '<number>x' token: a digit immediately followed by the letter x.
HasNumberX(name) ==
    \E i \in 1..(Len(name) - 1) :
        name[i] \in {"0", "1", "2", "3", "4", "5", "6", "7", "8", "9"} /\ name[i + 1] = "x"
NoDigit(name) ==
    \A i \in DOMAIN name : name[i] \notin {"0", "1", "2", "3", "4", "5", "6", "7", "8", "9"}
OneAndAHalf == (15 * FlowUnit) \div 10
\* "1.5x" at position i of the name.
TokenAt(name, i) == i + 3 <= Len(name) /\ SubSeq(name, i, i + 3) = <<"1", ".", "5", "x">>

\* C17 as claimed: getFlow returns for every name; 1.0 for a name without a
\* '<number>x' token, 1.5 for a name containing "1.5x", 2.0 for "(2x)".
C17_Original ==
    FlowDone =>
        /\ ~HasNumberX(pure.name) => pure.flow = FlowUnit
        /\ (\E i \in DOMAIN pure.name : TokenAt(pure.name, i)) => pure.flow = OneAndAHalf
        /\ pure.name = <<"(", "2", "x", ")">> => pure.flow = 2 * FlowUnit

\* C17 as amended: getFlow returns for every name; 1.0 for a name without a
\* '<number>x' token, 1.5 for a name containing "1.5x" with no digit before
\* it, 2.0 for "(2x)".
C17_FlowParsing ==
    FlowDone =>
        /\ ~HasNumberX(pure.name) => pure.flow = FlowUnit
        /\ (\E i \in DOMAIN pure.name :
                TokenAt(pure.name, i) /\ NoDigit(SubSeq(pure.name, 1, i - 1)))
              => pure.flow = OneAndAHalf
        /\ pure.name = <<"(", "2", "x", ")">> => pure.flow = 2 * FlowUnit

\* C17 witness: getFlow has returned 1.5 for "(1.5x)" ...
C17_Witness ==
    /\ FlowDone /\ pure.name = <<"(", "1", ".", "5", "x", ")">>
    /\ pure.flow = OneAndAHalf

\* ... 2.0 for "(2x)" ...
C17_WitnessInteger == FlowDone /\ pure.name = <<"(", "2", "x", ")">> /\ pure.flow = 2 * FlowUnit

\* ... and 1.0 for "1.x", which has digits and an x but no token.
C17_WitnessDefault == FlowDone /\ pure.name = <<"1", ".", "x">> /\ pure.flow = FlowUnit

(***************************************************************************)
(* Claims about the controller against a service that behaves (SpecLive).  *)
(***************************************************************************)
\* gCurrent names an endpoint of the current pool whose delay test succeeds
\* with a delay of at most the base threshold.
ActiveHealthy ==
    /\ gCurrent # Nil
    /\ heap[gCurrent].name \in NamesOf(heap, gNodes)
    /\ LiveProbe(heap[gCurrent].name) > 0
    /\ LiveProbe(heap[gCurrent].name) <= gConfig.LatencyThreshold

\* C15: once the service is fixed (its directory holds B2x, alive and passing
\* the filter, whose delay test always gives the base threshold, and every
\* switch request succeeds), the three tasks being scheduled fairly, gCurrent
\* eventually names a healthy endpoint of the pool, and does so from then on.
C15_FailoverLiveness == [](service.fixed => <>[]ActiveHealthy)

(***************************************************************************)
(* Claims about a probe goroutine's trials (SpecTrial).                    *)
(***************************************************************************)
TrialsDone == pure.op = "probe" /\ pure.pc = "done"
\* The sum of the trials of indices 1..i that returned a value > 0, and their number.
RECURSIVE GoodSum(_, _)
GoodSum(trials, i) ==
    IF i = 0 THEN 0 ELSE GoodSum(trials, i - 1) + (IF trials[i] > 0 THEN trials[i] ELSE 0)
GoodCount(trials) == Cardinality({i \in DOMAIN trials : trials[i] > 0})

\* C21: the latency a probe goroutine writes is -1 when no trial returned a
\* value > 0, and otherwise the quotient, rounded down, of the sum of the
\* trials that returned a value > 0 by their number.
C21_MeanOfSuccessfulTrials ==
    TrialsDone =>
        LET n == GoodCount(pure.trials)
            sum == GoodSum(pure.trials, Len(pure.trials))
        IN IF n = 0 THEN pure.latency = -1
           ELSE /\ pure.latency * n <= sum
                /\ sum < (pure.latency + 1) * n

\* C21 witness: three trials, one failed, the other two with a mean that is
\* not an integer.
C21_Witness ==
    /\ TrialsDone /\ Len(pure.trials) = 3
    /\ GoodCount(pure.trials) = 2 /\ GoodSum(pure.trials, 3) = 7
    /\ pure.latency = 3

\* ... and three trials that all failed.
C21_WitnessNoSignal ==
    /\ TrialsDone /\ Len(pure.trials) = 3 /\ GoodCount(pure.trials) = 0
    /\ pure.latency = -1

(***************************************************************************)
(* More claims about the escalation loop (SpecSelect).                     *)
(***************************************************************************)
SameTier(a, b) == heap[a].flow = heap[b].flow
\* The thresholds searched before the one the run ended at.
EarlierThresholds == {T + k * GoDiv(T, 10) : k \in 0..(selRounds - 2)}

\* C22: the node returned at threshold t qualifies at t and no node of its tier
\* that qualifies at t is faster; no node of a cheaper tier qualifies at t; and
\* no node of the pool qualifies at a threshold searched before t.
C22_FastestOfCheapestTierAtFirstThreshold ==
    Returned =>
        /\ Qualifies(selResult, latencyThreshold)
        /\ \A a \in Range(gNodes) :
              (SameTier(a, selResult) /\ Qualifies(a, latencyThreshold))
                  => heap[selResult].latency <= heap[a].latency
        /\ \A a \in Range(gNodes) :
              heap[a].flow < heap[selResult].flow => ~Qualifies(a, latencyThreshold)
        /\ \A t \in EarlierThresholds : \A a \in Range(gNodes) : ~Qualifies(a, t)

\* C22 witness: the node returned is the second of two of its tier that both
\* qualify, the first being slower ...
C22_Witness ==
    /\ Returned /\ selResult = 2
    /\ SameTier(1, 2) /\ Qualifies(1, latencyThreshold)
    /\ heap[1].latency > heap[2].latency

\* ... and a node has been returned from the dearer tier at a raised threshold,
\* the cheaper tier holding a node that is too slow for it.
C22_WitnessEscalated ==
    /\ Returned /\ latencyThreshold > T /\ selRounds > 2
    /\ \E a \in Range(gNodes) :
          heap[a].flow < heap[selResult].flow /\ heap[a].latency > latencyThreshold

\* C27: for a base threshold of 10 or more, a run over a pool that holds a node
\* with 0 < latency <= 2T returns a node.
C27_HealthyLatencyAccepted ==
    (selPc = "done" /\ T >= 10
     /\ \E a \in Range(gNodes) : heap[a].latency > 0 /\ heap[a].latency <= 2 * T)
        => Returned

(***************************************************************************)
(* More claims about the controller (Spec).                                *)
(***************************************************************************)
\* The task has a request to the control service in flight (or is about to
\* send it): GET /proxies, the delay tests of a batch or of gCurrent, the PUT.
InNetwork(t) == pc[t] \in {"fetch", "probe", "test", "switch"}

\* C23: while a task has a network call in flight, a task that is waiting
\* can take the lock and enter its critical section.
C23_LockFreeDuringNetworkCalls ==
    \A t \in Tasks : InNetwork(t) => \A u \in Tasks \ {t} : Idle(u) => ENABLED Lock(u)

\* What the code does instead: a task that has a network call in flight holds
\* mu (lines 323, 349, 374 lock before the call, lines 328-340, 355-364 and 395
\* unlock after it); the other two tasks wait and cannot take it.
LockHeldAcrossNetworkCalls ==
    \A t \in Tasks : InNetwork(t) =>
        /\ mu = t
        /\ \A u \in Tasks \ {t} : Idle(u) /\ ~ENABLED Lock(u)

Selection == selectFastestNode(heap, gNodes, T)

\* C24: all through a selection run gNodes is the list the run started with,
\* and the goroutines waited for are goroutines of its nodes; the node the run
\* returns is a node of that list, and gBest, when it is assigned the node, is
\* a node of gNodes.
C24_SelectionOnOneGeneration ==
    /\ [](\A t \in {"selector", "checker"} :
            Selecting(t) =>
                /\ atLock.taken
                /\ gNodes = atLock.nodes
                /\ pending[t] \subseteq Range(gNodes))
    /\ [][\A t \in {"selector", "checker"} :
            (Selecting(t) /\ ~Selecting(t)' /\ atLock.taken /\ Selection.outcome = "found") =>
                /\ Selection.node \in Range(atLock.nodes)
                /\ gBest' \in Range(gNodes')
                /\ NameSeq(heap', gNodes') = NameSeq(heap, gNodes)
                /\ heap'[gBest'] = heap[Selection.node]]_vars

\* C24 witness: a run over two nodes is about to return the second one.
C24_Witness ==
    \E t \in {"selector", "checker"} :
        /\ Selecting(t) /\ pending[t] = {} /\ Len(gNodes) = 2
        /\ Selection.outcome = "found" /\ Selection.node = gNodes[2]

\* C26: a task that waits (for its tick, in its backoff, or for the lock) does
\* not hold mu; the step that takes a task to waiting releases mu; a task
\* that waits can start its next iteration as soon as mu is free; and the
\* error paths (fetch error, empty list, selection error, switch error) end in
\* the task waiting, like the others.
C26_NoLockWhileWaiting ==
    /\ [](\A t \in Tasks : Idle(t) => mu # t)
    /\ [](\A t \in Tasks : (Idle(t) /\ mu = "none") => ENABLED Lock(t))
    /\ [][\A t \in Tasks : (~Idle(t) /\ Idle(t)') => (mu = t /\ mu' = "none")]_vars
    /\ [][(pc["updater"] = "fetched" /\ (uErr # "none" \/ uNodes = <<>>)) => Idle("updater")']_vars
    /\ [][(Selecting("selector") /\ pending["selector"] = {}
            /\ Selection.outcome = "error") => Idle("selector")']_vars
    /\ [][(TickEnd /\ (SelectionFailed \/ FailedSwitch)) => Idle("checker")']_vars

\* C26 witness: a failover tick whose switch request failed is over; all three
\* tasks wait and mu is free.
C26_Witness ==
    /\ prevSwitchFailed /\ mu = "none" /\ gNodes # <<>>
    /\ \A t \in Tasks : Idle(t)

EmptyFetch == pc["updater"] = "fetched" /\ uErr = "none" /\ uNodes = <<>>

\* C28: a cycle whose fetch succeeded with an empty filtered list leaves
\* gNodes, gCurrent and gBest (and the nodes) as they were at its mu.Lock()
\* and takes the updater back to waiting, without the lock; and gNodes, once
\* it is not empty, is never empty again.
C28_EmptySnapshotKeepsState ==
    /\ [][EmptyFetch =>
            /\ SharedAsAtLock
            /\ gNodes' = atLock.nodes /\ gCurrent' = atLock.current /\ gBest' = atLock.best
            /\ heap' = atLock.heap
            /\ Idle("updater")' /\ mu' = "none"]_vars
    /\ [][gNodes # <<>> => gNodes' # <<>>]_vars

\* C28 witness: the filtered list of a fetch is empty while a pool, an active
\* and a preferred node exist.
C28_Witness ==
    /\ EmptyFetch
    /\ gNodes # <<>> /\ gCurrent # Nil /\ gBest # Nil

\* C29: a failover tick that starts with gCurrent nil gets -1 from testNode,
\* which has probed no node; the tick goes on as a degraded one: with gBest nil
\* the selection runs and, if it returns a node, the switch to that node
\* follows; with gBest set the switch to gBest follows.
C29_UnsetActiveIsDegraded ==
    /\ (pc["checker"] \in {"decide", "probe", "switch", "unlock"} /\ atLock.taken
        /\ atLock.current = Nil) =>
          /\ tickLog[1].op = "test" /\ tickLog[1].node = Nil
          /\ tickLog[1].val = -1
    /\ (pc["checker"] = "decide" /\ atLock.taken /\ atLock.current = Nil) => delay = -1
    /\ (TickEnd /\ atLock.taken /\ atLock.current = Nil) =>
          /\ tickLog[1].val = -1
          /\ Len(tickLog) >= 2
          /\ IF atLock.best = Nil
             THEN /\ tickLog[2].op = "select"
                  /\ IF tickLog[2].ok
                     THEN /\ Len(tickLog) = 3 /\ tickLog[3].op = "switch"
                          /\ tickLog[3].node = tickLog[2].node
                     ELSE Len(tickLog) = 2
             ELSE /\ Len(tickLog) = 2 /\ tickLog[2].op = "switch"
                  /\ tickLog[2].node = atLock.best

\* C29 witness: a tick that started with gCurrent nil over a pool (the
\* reported now was not in the filtered list) has selected a node and switched
\* to it.
C29_Witness ==
    /\ TickEnd /\ atLock.current = Nil /\ atLock.best = Nil /\ gNodes # <<>>
    /\ Len(tickLog) = 3 /\ tickLog[3].op = "switch" /\ tickLog[3].ok
    /\ gCurrent # Nil

\* The pointer names a node of the same name before and after the step.
SameNode(a, b) == IF a = Nil THEN b = Nil ELSE b # Nil /\ heap'[b].name = heap[a].name
SelectorIdles == pc["selector"] = "check" /\ (gBest # Nil \/ gNodes = <<>>)

C30_WitnessSkip == SelectorIdles /\ gBest # Nil /\ gNodes # <<>>

(***************************************************************************)
(* The sign of the cost coefficient (SpecFlow).                            *)
(***************************************************************************)
NoZeroDigit(name) == \A i \in DOMAIN name : name[i] # "0"

\* C25 as claimed: getFlow returns a strictly positive coefficient for every
\* name, "0x" included.
C25_Original == FlowDone => pure.flow > 0

\* C25 as amended: getFlow never returns a negative coefficient; it returns a
\* strictly positive one for every name without the digit 0, and 0 for "0x".
C25_FlowNonNegative ==
    FlowDone =>
        /\ pure.flow >= 0
        /\ NoZeroDigit(pure.name) => pure.flow > 0
        /\ pure.name = <<"0", "x">> => pure.flow = 0

\* C25 witness: getFlow has returned 0 for the name "0x" ...
C25_Witness == FlowDone /\ pure.name = <<"0", "x">> /\ pure.flow = 0

\* ... and 1.0 for a name of letters only.
C25_WitnessNoToken == FlowDone /\ pure.name = <<"H", "x">> /\ pure.flow = FlowUnit

(***************************************************************************)
(* The preferred node after a failed selection (Spec).                     *)
(***************************************************************************)
SelectorRuns == pc["selector"] = "check" /\ gBest = Nil /\ gNodes # <<>>

\* C31: a failover tick whose selection run failed had gBest nil or equal to
\* gCurrent at its start and leaves gBest nil, in the tick and after its
\* unlock; gBest, once nil, stays nil until a selection run returns a node;
\* and a tick of the selector task that finds gBest nil and gNodes not empty
\* starts a selection run over the nodes of gNodes.
C31_FailedSelectionUnsetsBest ==
    /\ [](SelectionFailed =>
            /\ atLock.taken
            /\ atLock.best = Nil \/ atLock.best = atLock.current
            /\ gBest = Nil)
    /\ [][(TickEnd /\ SelectionFailed) => gBest' = Nil]_vars
    /\ [][(gBest = Nil /\ gBest' # Nil) =>
            \E t \in {"selector", "checker"} :
                /\ mu = t /\ Selecting(t) /\ ~Selecting(t)'
                /\ Selection.outcome = "found"]_vars
    /\ [][SelectorRuns =>
            /\ Selecting("selector")' /\ pending'["selector"] = Range(gNodes)
            /\ mu' = "selector"]_vars

\* C31 witness: the selection failed in a tick that started with gBest set and
\* equal to gCurrent; gBest is nil now.
C31_Witness ==
    /\ TickEnd /\ SelectionFailed
    /\ atLock.best # Nil /\ atLock.best = atLock.current
    /\ gBest = Nil /\ gNodes # <<>>

\* ... and the selector task is at a tick with gBest nil over a pool, the last
\* failover tick having ended without a switch.
C31_WitnessSelector == SelectorRuns /\ gCurrent # Nil /\ Idle("checker")

====
